---- MODULE Spec2Model ----
(***************************************************************************)
(* A model of graphite_influxdb/classes/finder.py (InfluxdbFinder): the    *)
(* pattern translation, the leaf/branch classification, the series cache   *)
(* with its ancestor fallback, the series loader and fetch_multi.          *)
(*                                                                         *)
(* A Python string is a sequence of one-character strings; the helpers     *)
(* below take and return Python's 0-based indices.                         *)
(***************************************************************************)
EXTENDS Integers, Sequences, FiniteSets, TLC

Min(a, b) == IF a < b THEN a ELSE b

Max(a, b) == IF a > b THEN a ELSE b

\* Python's None, a value no string equals.
None == <<"None">>

\* s[i:]
SliceFrom(s, i) ==
    LET n == Len(s)
        k == IF i < 0 THEN Max(n + i, 0) ELSE Min(i, n)
    IN  SubSeq(s, k + 1, n)

\* s[:j]
SliceTo(s, j) ==
    LET n == Len(s)
        k == IF j < 0 THEN Max(n + j, 0) ELSE Min(j, n)
    IN  SubSeq(s, 1, k)

\* s.find(c): the index of the first c, -1 when there is none
Find(s, c) ==
    IF \E i \in 1..Len(s) : s[i] = c
    THEN (CHOOSE i \in 1..Len(s) : s[i] = c /\ \A j \in 1..(i - 1) : s[j] # c) - 1
    ELSE -1

\* s.rfind(c): the index of the last c, -1 when there is none
RFind(s, c) ==
    IF \E i \in 1..Len(s) : s[i] = c
    THEN (CHOOSE i \in 1..Len(s) : s[i] = c /\ \A j \in (i + 1)..Len(s) : s[j] # c) - 1
    ELSE -1

\* c in s
Contains(s, c) == \E i \in 1..Len(s) : s[i] = c

\* s.endswith(c)
EndsWith(s, c) == Len(s) > 0 /\ s[Len(s)] = c

\* s.split(c)
RECURSIVE Split(_, _)
Split(s, c) ==
    LET i == Find(s, c)
    IN  IF i < 0 THEN <<s>>
        ELSE <<SliceTo(s, i)>> \o Split(SliceFrom(s, i + 1), c)

\* c.join(parts)
RECURSIVE Join(_, _)
Join(parts, c) ==
    IF parts = <<>> THEN <<>>
    ELSE IF Len(parts) = 1 THEN parts[1]
    ELSE parts[1] \o <<c>> \o Join(Tail(parts), c)

\* The root wildcard pattern '*'.
STAR == <<"*">>

\* graphite_api.utils.is_pattern: any of * ? [ { occurs in s
is_pattern(s) ==
    Contains(s, "*") \/ Contains(s, "?") \/ Contains(s, "[") \/ Contains(s, "{")

(***************************************************************************)
(* Leaf/branch classification: is_leaf_node, find_branch.                  *)
(***************************************************************************)

\* is_leaf_node with the condition of line 299 read as "the index is positive":
\* Python's truth of -1 lost.
is_leaf_node_index_positive(leaf_paths_, pattern, path) ==
    LET _path_search == Find(path, ".")
        leaf_path_key == path \o pattern
        query_pat_index == RFind(pattern, ".")
        split_pat == Split(pattern, ".")
        split_pat_ == IF EndsWith(split_pat[Len(split_pat)], "*")
                      THEN SliceTo(split_pat, -1) ELSE split_pat
        branch_no == Len(split_pat_)
        split_path == Split(path, ".")
    IN  IF pattern = STAR /\ _path_search > 0 THEN FALSE
        ELSE IF ~is_pattern(pattern) /\ _path_search < 0 THEN FALSE
        ELSE IF leaf_path_key \in leaf_paths_ THEN TRUE
        ELSE IF query_pat_index > 0
                /\ ~(Find(SliceFrom(path, query_pat_index + 1), ".") >= 0)
        THEN ~(~is_pattern(SliceFrom(pattern, query_pat_index + 1)) /\ path # pattern)
        ELSE IF ~(Len(split_pat) > 1) /\ path = pattern THEN TRUE
        ELSE ~(Len(SliceFrom(split_path, branch_no - 1)) > branch_no)

\* is_leaf_node with "and not path == query.pattern" of line 302 left out: past the
\* pattern's last dot only a wildcard segment makes a Leaf
is_leaf_node_last_segment_only(leaf_paths_, pattern, path) ==
    LET _path_search == Find(path, ".")
        leaf_path_key == path \o pattern
        query_pat_index == RFind(pattern, ".")
        split_pat == Split(pattern, ".")
        \* line 307: a last segment ending in * is dropped
        split_pat_ == IF EndsWith(split_pat[Len(split_pat)], "*")
                      THEN SliceTo(split_pat, -1) ELSE split_pat
        branch_no == Len(split_pat_)
        split_path == Split(path, ".")
    IN  IF pattern = STAR /\ _path_search > 0 THEN FALSE
        ELSE IF ~is_pattern(pattern) /\ _path_search < 0 THEN FALSE
        ELSE IF leaf_path_key \in leaf_paths_ THEN TRUE
        \* line 299: "if query_pat_index" is true of every index but 0, of -1 too
        ELSE IF query_pat_index # 0
                /\ ~(Find(SliceFrom(path, query_pat_index + 1), ".") >= 0)
        THEN is_pattern(SliceFrom(pattern, query_pat_index + 1))
        ELSE IF ~(Len(split_pat) > 1) /\ path = pattern THEN TRUE
        ELSE ~(Len(SliceFrom(split_path, branch_no - 1)) > branch_no)

\* is_leaf_node(query, path), self.leaf_paths passed as leaf_paths_
is_leaf_node(leaf_paths_, pattern, path) ==
    LET _path_search == Find(path, ".")
        leaf_path_key == path \o pattern
        query_pat_index == RFind(pattern, ".")
        split_pat == Split(pattern, ".")
        \* line 307: a last segment ending in * is dropped
        split_pat_ == IF EndsWith(split_pat[Len(split_pat)], "*")
                      THEN SliceTo(split_pat, -1) ELSE split_pat
        branch_no == Len(split_pat_)
        split_path == Split(path, ".")
    IN  IF pattern = STAR /\ _path_search > 0 THEN FALSE
        ELSE IF ~is_pattern(pattern) /\ _path_search < 0 THEN FALSE
        ELSE IF leaf_path_key \in leaf_paths_ THEN TRUE
        \* line 299: "if query_pat_index" is true of every index but 0, of -1 too
        ELSE IF query_pat_index # 0
                /\ ~(Find(SliceFrom(path, query_pat_index + 1), ".") >= 0)
        THEN ~(~is_pattern(SliceFrom(pattern, query_pat_index + 1)) /\ path # pattern)
        ELSE IF ~(Len(split_pat) > 1) /\ path = pattern THEN TRUE
        ELSE ~(Len(SliceFrom(split_path, branch_no - 1)) > branch_no)

\* find_branch without the two tests against seen_branches of lines 266 and 276
find_branch_no_suppress(path, pattern, seen) ==
    IF path \in seen THEN [ret |-> None, seen |-> seen]
    ELSE IF pattern = STAR
    THEN LET return_path == SliceTo(path, Find(path, "."))
         IN  [ret |-> return_path, seen |-> seen \cup {return_path}]
    ELSE LET branch_no == Len(Split(pattern, "."))
             rest == SliceFrom(Split(path, "."), branch_no - 1)
         IN  IF rest = <<>> THEN [ret |-> None, seen |-> seen]
             ELSE [ret |-> rest[1], seen |-> seen \cup {rest[1]}]

\* find_branch(path, query, seen_branches): what it returns (None, or the segment)
\* and seen_branches as it leaves it
find_branch(path, pattern, seen) ==
    IF path \in seen THEN [ret |-> None, seen |-> seen]
    ELSE IF pattern = STAR
    THEN LET return_path == SliceTo(path, Find(path, "."))
         IN  IF return_path \in seen THEN [ret |-> None, seen |-> seen]
             ELSE [ret |-> return_path, seen |-> seen \cup {return_path}]
    ELSE LET branch_no == Len(Split(pattern, "."))
             \* split_path[branch_no-1:][0], IndexError when the slice is empty
             rest == SliceFrom(Split(path, "."), branch_no - 1)
         IN  IF rest = <<>> THEN [ret |-> None, seen |-> seen]
             ELSE IF rest[1] \in seen THEN [ret |-> None, seen |-> seen]
             ELSE [ret |-> rest[1], seen |-> seen \cup {rest[1]}]

\* The nodes find_nodes yields.
LeafNode(path) == [kind |-> "Leaf", name |-> path]

BranchNode(segment) == [kind |-> "Branch", name |-> segment]

\* One turn of the loop of find_nodes (lines 343-361) on `path`: the memo and the
\* seen set as the turn leaves them, and the nodes it yields.
find_nodes_turn(leaf_paths_, branch_paths_, seen, pattern, path) ==
    IF is_leaf_node(leaf_paths_, pattern, path)
    THEN [leaf_paths |-> leaf_paths_ \cup {path \o pattern}, seen |-> seen,
          out |-> <<LeafNode(path)>>]
    ELSE IF path \in DOMAIN branch_paths_
    THEN [leaf_paths |-> leaf_paths_, seen |-> seen,
          out |-> <<BranchNode(branch_paths_[path])>>]
    ELSE LET b == find_branch(path, pattern, seen)
         IN  [leaf_paths |-> leaf_paths_, seen |-> b.seen,
              \* "if branch": None and the empty string yield nothing
              out |-> IF b.ret # None /\ b.ret # <<>>
                      THEN <<BranchNode(b.ret)>> ELSE <<>>]

\* The names of the nodes of one kind among `nodes`.
NamesOf(nodes, kind) == {nodes[k].name : k \in {j \in 1..Len(nodes) : nodes[j].kind = kind}}

\* The nodes of one kind among `nodes`, in order.
RECURSIVE OfKind(_, _)
OfKind(nodes, kind) ==
    IF nodes = <<>> THEN <<>>
    ELSE (IF Head(nodes).kind = kind THEN <<Head(nodes).name>> ELSE <<>>)
         \o OfKind(Tail(nodes), kind)

\* What find_nodes yields for `series` on an instance whose memo is leaf_paths_
\* and whose seen set starts as `seen`: the loop of lines 342-361 run to its end.
RECURSIVE find_nodes_run(_, _, _, _)
find_nodes_run(leaf_paths_, seen, pattern, series) ==
    IF series = <<>> THEN <<>>
    ELSE LET t == find_nodes_turn(leaf_paths_, <<>>, seen, pattern, Head(series))
         IN  t.out \o find_nodes_run(t.leaf_paths, t.seen, pattern, Tail(series))

(***************************************************************************)
(* Pattern translation (make_regex_string) and the two matchers the series *)
(* lists go through: the store's regular expression search and             *)
(* graphite_api's match_entries (fnmatch).                                 *)
(*                                                                         *)
(* A regular expression is a sequence of tokens: a token is one character  *)
(* of the expression or one of the fragments make_regex_string inserts.    *)
(***************************************************************************)

\* The fragment \. : a literal dot.
RE_DOT == "\\."

\* The fragment [a-zA-Z0-9-_:#]+ of line 231.
RE_SEG == "[a-zA-Z0-9-_:#]+"

\* The fragment ([a-zA-Z0-9-_:#]+(\.)?)+ that replaces * on line 233.
RE_STAR == "([a-zA-Z0-9-_:#]+(\\.)?)+"

\* The characters of the class [a-zA-Z0-9-_:#].
SegChars ==
    {"a", "b", "c", "d", "e", "f", "g", "h", "i", "j", "k", "l", "m", "n", "o", "p",
     "q", "r", "s", "t", "u", "v", "w", "x", "y", "z",
     "A", "B", "C", "D", "E", "F", "G", "H", "I", "J", "K", "L", "M", "N", "O", "P",
     "Q", "R", "S", "T", "U", "V", "W", "X", "Y", "Z",
     "0", "1", "2", "3", "4", "5", "6", "7", "8", "9", "-", "_", ":", "#"}

\* is_suffix_pattern(pattern)
is_suffix_pattern(pattern) == EndsWith(pattern, "*") \/ EndsWith(pattern, "}")

\* The replace chain of lines 232-234, on one character of the pattern.
ReplaceChar(c) ==
    CASE c = "." -> RE_DOT
      [] c = "*" -> RE_STAR
      [] c = "{" -> "("
      [] c = "," -> "|"
      [] c = "}" -> ")"
      [] OTHER -> c

\* make_regex_string(query)
make_regex_string(pattern) ==
    IF ~is_pattern(pattern) THEN <<"^">> \o pattern
    ELSE IF pattern = STAR THEN <<"^", RE_SEG, RE_DOT>>
    ELSE LET pat == <<"^">> \o [i \in 1..Len(pattern) |-> ReplaceChar(pattern[i])]
         IN  IF ~is_suffix_pattern(pattern) THEN pat \o <<"$">> ELSE pat

\* The positions q > p with s[p+1..q] all of the class: one [..]+ from p.
SegRun(s, p) == {q \in (p + 1)..Len(s) : \A j \in (p + 1)..q : s[j] \in SegChars}

\* One [..]+(\.)? from p.
SegDotRun(s, p) ==
    SegRun(s, p) \cup {q + 1 : q \in {r \in SegRun(s, p) : r < Len(s) /\ s[r + 1] = "."}}

\* ([..]+(\.)?)+ from the positions P.
RECURSIVE StarClosure(_, _)
StarClosure(s, P) ==
    LET N == P \cup UNION {SegDotRun(s, p) : p \in P}
    IN  IF N = P THEN P ELSE StarClosure(s, N)

\* The positions of s a match can be at after one token, from the positions P.
ReStep(tok, s, P) ==
    CASE tok = "^" -> {p \in P : p = 0}
      [] tok = "$" -> {p \in P : p = Len(s)}
      [] tok = RE_DOT -> {p + 1 : p \in {r \in P : r < Len(s) /\ s[r + 1] = "."}}
      [] tok = "." -> {p + 1 : p \in {r \in P : r < Len(s)}}
      [] tok = RE_SEG -> UNION {SegRun(s, p) : p \in P}
      [] tok = RE_STAR -> StarClosure(s, UNION {SegDotRun(s, p) : p \in P})
      [] OTHER -> {p + 1 : p \in {r \in P : r < Len(s) /\ s[r + 1] = tok}}

\* The positions a match of the token sequence re can end at, from the positions
\* P. A group ( x | y ) is the union of its alternatives.
RECURSIVE ReEnds(_, _, _)
ReEnds(re, s, P) ==
    IF re = <<>> THEN P
    ELSE IF Head(re) = "("
    THEN LET close == Find(re, ")")
         IN  IF close < 0 THEN {}
             ELSE LET alts == Split(SubSeq(re, 2, close), "|")
                  IN  ReEnds(SliceFrom(re, close + 1), s,
                             UNION {ReEnds(alts[k], s, P) : k \in 1..Len(alts)})
    ELSE ReEnds(Tail(re), s, ReStep(Head(re), s, P))

\* measurement =~ /re/ : the expression matches somewhere in s.
re_search(re, s) == ReEnds(re, s, 0..Len(s)) # {}

\* fnmatch.fnmatchcase(s, p): * is any run of characters, ? any one character
RECURSIVE FnMatch(_, _)
FnMatch(s, p) ==
    IF p = <<>> THEN s = <<>>
    ELSE IF Head(p) = "*"
    THEN \E k \in 0..Len(s) : FnMatch(SliceFrom(s, k), Tail(p))
    ELSE IF Head(p) = "?"
    THEN s # <<>> /\ FnMatch(Tail(s), Tail(p))
    ELSE s # <<>> /\ Head(s) = Head(p) /\ FnMatch(Tail(s), Tail(p))

\* fnmatch.filter(entries, p)
RECURSIVE FnFilter(_, _)
FnFilter(entries, p) ==
    IF entries = <<>> THEN <<>>
    ELSE (IF FnMatch(Head(entries), p) THEN <<Head(entries)>> ELSE <<>>)
         \o FnFilter(Tail(entries), p)

\* The characters in the order of their code points.
CodeOrder ==
    <<"#", "*", ",", "-", ".", "0", "1", "2", "3", "4", "5", "6", "7", "8", "9", ":",
      "?", "A", "B", "C", "D", "E", "F", "G", "H", "I", "J", "K", "L", "M", "N", "O",
      "P", "Q", "R", "S", "T", "U", "V", "W", "X", "Y", "Z", "[", "_",
      "a", "b", "c", "d", "e", "f", "g", "h", "i", "j", "k", "l", "m", "n", "o", "p",
      "q", "r", "s", "t", "u", "v", "w", "x", "y", "z", "{", "}">>

Ord(c) == CHOOSE i \in 1..Len(CodeOrder) : CodeOrder[i] = c

\* s < t, as Python and the store order strings
StrLess(s, t) ==
    \E k \in 1..(Min(Len(s), Len(t)) + 1) :
        /\ \A j \in 1..(k - 1) : s[j] = t[j]
        /\ IF k <= Len(s) /\ k <= Len(t) THEN Ord(s[k]) < Ord(t[k])
           ELSE k > Len(s) /\ k <= Len(t)

\* list.sort()
RECURSIVE SortList(_)
SortList(l) ==
    IF l = <<>> THEN <<>>
    ELSE LET m == CHOOSE i \in 1..Len(l) : \A j \in 1..Len(l) : ~StrLess(l[j], l[i])
         IN  <<l[m]>> \o SortList(SubSeq(l, 1, m - 1) \o SubSeq(l, m + 1, Len(l)))

\* The elements of the set S in ascending order.
RECURSIVE SortSet(_)
SortSet(S) ==
    IF S = {} THEN <<>>
    ELSE LET m == CHOOSE x \in S : \A y \in S : ~StrLess(y, x)
         IN  <<m>> \o SortSet(S \ {m})

\* graphite_api's _deduplicate: the first occurrence of each entry, in order
RECURSIVE Deduplicate(_, _)
Deduplicate(l, had) ==
    IF l = <<>> THEN <<>>
    ELSE IF Head(l) \in had THEN Deduplicate(Tail(l), had)
    ELSE <<Head(l)>> \o Deduplicate(Tail(l), had \cup {Head(l)})

\* The concatenation of the lists of a list.
RECURSIVE Flatten(_)
Flatten(ls) == IF ls = <<>> THEN <<>> ELSE Head(ls) \o Flatten(Tail(ls))

\* graphite_api.finders.match_entries(entries, pattern)
match_entries(entries, pattern) ==
    LET v1 == Find(pattern, "{")
        v2 == Find(pattern, "}")
    IN  IF v1 > -1 /\ v2 > v1
        THEN LET variations == Split(SubSeq(pattern, v1 + 2, v2), ",")
                 variants == [k \in 1..Len(variations) |->
                                 SliceTo(pattern, v1) \o variations[k]
                                     \o SliceFrom(pattern, v2 + 1)]
             IN  Deduplicate(
                     Flatten([k \in 1..Len(variants) |-> FnFilter(entries, variants[k])]),
                     {})
        ELSE SortList(FnFilter(entries, pattern))

\* The elements of a list.
Range(l) == {l[k] : k \in 1..Len(l)}

(***************************************************************************)
(* The series cache: memcache entries, the store's answer to a series      *)
(* query, _get_parent_branch_series, get_series.                           *)
(*                                                                         *)
(* The memcache content is a function from keys to entries [val, time]:    *)
(* the value and the lifetime it was set with. get_series and its helper   *)
(* are operators from the content before the call to a record of what the  *)
(* call returns (ret), the content after it (mc), and what it did: the     *)
(* store queries (queries), the memcache gets and sets (gets, writes), the *)
(* keys it set (wrote) and where the result came from (via).               *)
(***************************************************************************)

\* Python's None where a list of names is expected, a value no list of names equals.
NoSeries == <<None>>

\* memcache.get(key): None when the key is absent
McGet(mc, key) == IF key \in DOMAIN mc THEN mc[key].val ELSE NoSeries

\* memcache.set(key, val, time=time)
McSet(mc, key, val, time) ==
    [k \in DOMAIN mc \cup {key} |-> IF k = key THEN [val |-> val, time |-> time] ELSE mc[k]]

\* memcache.delete(key), and an entry running out of its lifetime
McDelete(mc, key) == [k \in DOMAIN mc \ {key} |-> mc[k]]

\* Python's truth of a list or None: neither None nor empty
Truthy(v) == v # NoSeries /\ v # <<>>

\* gen_memcache_pattern_key("_".join([pattern, str(limit), str(offset)])): a key
\* that (pattern, limit, offset) determines, two triples never sharing one
series_key(pattern, limit, offset) == <<pattern, limit, offset>>

\* _make_series_query: the expression, and LIMIT/OFFSET when either is not 0
make_series_query(pattern, limit, offset) ==
    [regex |-> make_regex_string(pattern),
     paged |-> (limit # 0 \/ offset # 0),
     limit |-> limit, offset |-> offset]

\* client.query of a SHOW MEASUREMENTS query and line 192: the names of the
\* store the expression matches, in ascending order, cut by LIMIT and OFFSET
show_measurements(store_, q) ==
    LET all == SortSet({n \in store_ : re_search(q.regex, n)})
    IN  IF q.paged THEN SubSeq(all, q.offset + 1, Min(q.offset + q.limit, Len(all)))
        ELSE all

\* Lines 129-146: the walk from the pattern towards the root; the list found
\* (None when none is), the pattern it was found under, the gets made.
RECURSIVE parent_walk(_, _, _, _, _)
parent_walk(mc, pattern_, limit, offset, gets) ==
    LET stripped == Join(SliceTo(Split(pattern_, "."), -1), ".")
        root_branch_query == (stripped = <<>>)
        _pattern == IF root_branch_query THEN STAR ELSE stripped
        parent_branch_series == McGet(mc, series_key(_pattern, limit, offset))
    IN  IF Truthy(parent_branch_series) \/ root_branch_query
        THEN [series |-> parent_branch_series, pattern |-> _pattern, gets |-> gets + 1]
        ELSE parent_walk(mc, _pattern, limit, offset, gets + 1)

\* _get_parent_branch_series(query, limit, offset)
get_parent_branch_series(mc, ttl, pattern, limit, offset) ==
    LET w == parent_walk(mc, pattern, limit, offset, 0)
    IN  IF ~Truthy(w.series)
        THEN [ret |-> NoSeries, mc |-> mc, gets |-> w.gets, wrote |-> <<>>, parent |-> NoSeries]
        ELSE IF ~is_pattern(pattern) /\ ~Contains(pattern, ".")
        THEN LET split_parents ==
                     [k \in 1..Len(w.series) |-> SliceTo(Split(w.series[k], "."), -1)]
                 series == {a \in UNION {Range(split_parents[k]) : k \in 1..Len(w.series)} :
                               a = pattern}
             IN  [ret |-> SortSet(series), mc |-> mc, gets |-> w.gets, wrote |-> <<>>,
                  parent |-> w.series]
        ELSE LET series == match_entries(w.series, pattern)
                 original_query_key == series_key(pattern, limit, offset)
             IN  [ret |-> series, mc |-> McSet(mc, original_query_key, series, ttl),
                  gets |-> w.gets, wrote |-> <<original_query_key>>, parent |-> w.series]

\* get_series, lines 177-197, after the exact key missed: par is what
\* _get_parent_branch_series did (nothing, without memcache or for '*')
get_series_miss(store_, has_mc, ttl, pattern, limit, offset, memcache_key, gets0, par) ==
    IF Truthy(par.ret)
    THEN [ret |-> par.ret, mc |-> par.mc, queries |-> 0,
          gets |-> gets0 + par.gets, wrote |-> par.wrote,
          via |-> "parent", parent |-> par.parent]
    ELSE [ret |-> show_measurements(store_, make_series_query(pattern, limit, offset)),
          mc |-> IF has_mc
                 THEN McSet(par.mc, memcache_key,
                            show_measurements(
                                store_, make_series_query(pattern, limit, offset)), ttl)
                 ELSE par.mc,
          queries |-> 1, gets |-> gets0 + par.gets,
          wrote |-> IF has_mc THEN par.wrote \o <<memcache_key>> ELSE par.wrote,
          via |-> "store", parent |-> par.parent]

\* get_series(query, cache, limit, offset); has_mc: self.memcache is set
get_series(store_, has_mc, mc, ttl, pattern, cache, limit, offset) ==
    IF Truthy(IF has_mc /\ cache THEN McGet(mc, series_key(pattern, limit, offset))
              ELSE NoSeries)
    THEN [ret |-> McGet(mc, series_key(pattern, limit, offset)), mc |-> mc,
          queries |-> 0, gets |-> 1, wrote |-> <<>>, via |-> "exact",
          parent |-> NoSeries]
    ELSE get_series_miss(
             store_, has_mc, ttl, pattern, limit, offset,
             series_key(pattern, limit, offset),
             IF has_mc /\ cache THEN 1 ELSE 0,
             IF has_mc /\ pattern # STAR
             THEN get_parent_branch_series(mc, ttl, pattern, limit, offset)
             ELSE [ret |-> NoSeries, mc |-> mc, gets |-> 0, wrote |-> <<>>,
                   parent |-> NoSeries])

\* get_series, lines 177-191, when client.query raises at line 191: nothing is
\* returned, lines 192-196 are not run, and the memcache is as
\* _get_parent_branch_series left it
get_series_miss_raises(gets0, par) ==
    [ret |-> NoSeries, mc |-> par.mc, queries |-> 1, gets |-> gets0 + par.gets,
     wrote |-> par.wrote, via |-> "raised", parent |-> par.parent]

\* get_series(query, cache, limit, offset) of a call that reaches line 191,
\* with the store query raising
get_series_raises(has_mc, mc, ttl, pattern, cache, limit, offset) ==
    get_series_miss_raises(
        IF has_mc /\ cache THEN 1 ELSE 0,
        IF has_mc /\ pattern # STAR
        THEN get_parent_branch_series(mc, ttl, pattern, limit, offset)
        ELSE [ret |-> NoSeries, mc |-> mc, gets |-> 0, wrote |-> <<>>,
              parent |-> NoSeries])

(***************************************************************************)
(* fetch_multi. The data cache is a function from keys to entries          *)
(* [val, time]; a mapping from paths to datapoints is a function whose     *)
(* domain is its set of keys; the store's answer to the select is the set  *)
(* of the series it has data for, each [name, values].                     *)
(***************************************************************************)

\* calculate_interval(start_time, end_time, deltas): a lookup of the width of
\* the range in a table of deltas, a wider range giving a coarser interval
calculate_interval(start_time, end_time) ==
    IF end_time - start_time <= 1800 THEN 10 ELSE 60

\* get_aggregation_func(path, aggregation_functions): the function of the first
\* entry of the table the path matches, mean when none does
get_aggregation_func(path) == IF Contains(path, "c") THEN "sum" ELSE "mean"

\* gen_memcache_key(start_time, end_time, aggregation_func, paths): a key that
\* the range, the function and the set of paths determine
gen_memcache_key(start_time, end_time, aggregation_func, paths) ==
    <<start_time, end_time, aggregation_func, paths>>

\* read_influxdb_values(data): the mapping from each series of the answer to
\* its datapoints
read_influxdb_values(data) ==
    [name \in {r.name : r \in data} |-> (CHOOSE r \in data : r.name = name).values]

\* Lines 409-410 left out: the answer's mapping as it is
setdefault_none(data, paths) == data

\* Lines 409-410: a key for every requested path, [] where the answer has none
setdefault_all(data, paths) ==
    [key \in DOMAIN data \cup paths |-> IF key \in DOMAIN data THEN data[key] ELSE <<>>]

\* fetch_multi, lines 378-417, for a non-empty list of nodes. aggregation_func:
\* the element list(set(...)) has at [0] (line 383); answer: what the store
\* answers to the select.
fetch_multi_paths(has_mc, dc, nodes, start_time, end_time, aggregation_func, answer) ==
    IF /\ has_mc
       /\ gen_memcache_key(start_time, end_time, aggregation_func, Range(nodes))
              \in DOMAIN dc
       /\ DOMAIN dc[gen_memcache_key(start_time, end_time, aggregation_func,
                                     Range(nodes))].val # {}
    THEN [time_info |-> <<start_time, end_time, calculate_interval(start_time, end_time)>>,
          data |-> dc[gen_memcache_key(start_time, end_time, aggregation_func,
                                       Range(nodes))].val,
          dc |-> dc, queries |-> 0, gets |-> 1, sets |-> 0, via |-> "cache"]
    ELSE [time_info |-> <<start_time, end_time, calculate_interval(start_time, end_time)>>,
          data |-> setdefault_all(read_influxdb_values(answer), Range(nodes)),
          dc |-> IF has_mc
                 THEN McSet(dc, gen_memcache_key(start_time, end_time, aggregation_func,
                                                 Range(nodes)),
                            setdefault_all(read_influxdb_values(answer), Range(nodes)),
                            calculate_interval(start_time, end_time))
                 ELSE dc,
          queries |-> 1, gets |-> IF has_mc THEN 1 ELSE 0,
          sets |-> IF has_mc THEN 1 ELSE 0, via |-> "store"]

\* fetch_multi with the return of lines 376-377 put after the cache lookup of
\* line 386
fetch_multi_late_return(has_mc, dc, nodes, start_time, end_time, aggregation_func, answer) ==
    IF nodes = <<>>
    THEN [time_info |-> <<start_time, end_time, calculate_interval(start_time, end_time)>>,
          data |-> <<>>, dc |-> dc, queries |-> 0, gets |-> IF has_mc THEN 1 ELSE 0,
          sets |-> 0, via |-> "empty"]
    ELSE fetch_multi_paths(has_mc, dc, nodes, start_time, end_time, aggregation_func,
                           answer)

\* fetch_multi(nodes, start_time, end_time): the pair (time_info, data) it
\* returns, the data cache after the call and what the call did
fetch_multi(has_mc, dc, nodes, start_time, end_time, aggregation_func, answer) ==
    IF nodes = <<>>
    THEN [time_info |-> <<start_time, end_time, calculate_interval(start_time, end_time)>>,
          data |-> <<>>, dc |-> dc, queries |-> 0, gets |-> 0, sets |-> 0,
          via |-> "empty"]
    ELSE fetch_multi_paths(has_mc, dc, nodes, start_time, end_time, aggregation_func,
                           answer)

\* fetch_multi, lines 378-404, of a call that reaches line 404, with the store
\* query raising: nothing is returned and lines 405-417 are not run
fetch_multi_raises(has_mc, dc, nodes, start_time, end_time, aggregation_func) ==
    [time_info |-> <<start_time, end_time, calculate_interval(start_time, end_time)>>,
     data |-> <<>>, dc |-> dc, queries |-> 1, gets |-> IF has_mc THEN 1 ELSE 0,
     sets |-> 0, via |-> "raised"]

(***************************************************************************)
(* The names and patterns of the model.                                    *)
(***************************************************************************)
S_servers == <<"s", "e", "r", "v", "e", "r", "s">>

S_web1 == <<"w", "e", "b", "1">>

S_web2 == <<"w", "e", "b", "2">>

S_cpu == <<"c", "p", "u">>

S_idle == <<"i", "d", "l", "e">>

S_user == <<"u", "s", "e", "r">>

P_web1_idle == Join(<<S_servers, S_web1, S_cpu, S_idle>>, ".")

P_web1_user == Join(<<S_servers, S_web1, S_cpu, S_user>>, ".")

P_web2_idle == Join(<<S_servers, S_web2, S_cpu, S_idle>>, ".")

\* The pattern servers.*.cpu
Q_servers_any_cpu == Join(<<S_servers, STAR, S_cpu>>, ".")

\* The patterns a*.* and *.*
Q_aStar_any == <<"a", "*", ".", "*">>

Q_any_any == <<"*", ".", "*">>

\* The series lists get_all_series hands to find_nodes in SpecNodes.
NodeSeries ==
    { <<P_web1_idle, P_web1_user, P_web2_idle>>,
      <<P_web1_idle>>,
      << <<"a", "b", ".", "a">>, <<"a", "b", ".", "a", "a">> >>,
      << <<"a">>, <<"a", ".", "b">>, <<"b", ".", "a">> >> }

\* The patterns find_nodes is called with in SpecNodes.
NodePatterns == {STAR, Q_servers_any_cpu, P_web1_idle, Q_aStar_any, Q_any_any}

\* The number of find_nodes calls made on one instance.
MaxCalls == 2

N_a_a == <<"a", ".", "a">>

N_a_b == <<"a", ".", "b">>

N_b_a == <<"b", ".", "a">>

N_a_a_a == <<"a", ".", "a", ".", "a">>

\* The pattern *.a
Q_any_a == <<"*", ".", "a">>

\* The contents of the store: the measurement names InfluxDB holds.
Stores == { {N_a_a, N_a_b, N_b_a}, {N_a_a, N_a_a_a} }

\* The patterns get_all_series is called with.
CallPatterns == {STAR, <<"a">>, N_a_a, Q_any_a}

\* The resolver instances, each with the loader process its construction starts.
LoaderProcs == {"L1", "L2"}

\* The instance that serves the get_all_series calls of Spec.
ServingProcs == {"L1"}

\* config['series_loader_interval'] and config['memcache_ttl'], in units of time
Intervals == {30, 90}

MemcacheTTLs == {600}

\* The amounts of time one Elapse step lets pass.
TimeSteps == {30}

\* The lifetime the loader sets its flag with.
MUTEX_TTL == 60

\* The page size find_nodes asks get_all_series for (2000 in the code), scaled
\* to the stores of the model.
DefaultLimit == 2

\* The page sizes get_all_series is called with.
CallLimits == {DefaultLimit}

\* The number of get_all_series calls made by the callers.
MaxRequests == 2

\* The lists of nodes fetch_multi is called with, by their paths.
FetchNodes == { <<>>, <<N_a_b>>, <<N_a_b, N_a_b>>, <<N_a_b, <<"a", ".", "c">> >> }

\* The ranges (start_time, end_time) fetch_multi is called with.
FetchRanges == { <<0, 60>>, <<0, 3600>> }

\* The datapoints the store holds for a series.
FetchValues == { <<1>> }

\* What the store answers to a select from the paths: the series it has data
\* for (all, some, none), each with its datapoints.
Answers(paths) ==
    UNION { { {[name |-> p, values |-> f[p]] : p \in S} : f \in [S -> FetchValues] } :
            S \in SUBSET paths }

\* The number of fetch_multi calls.
MaxFetches == 3

\* The stores of the direct get_series calls: the two above and one with
\* measurement names that have no dot.
CallStores == Stores \cup { { <<"a">>, <<"a", "b">>, N_a_b } }

\* The patterns of the direct get_series calls.
SeriesPatterns == { STAR, <<"a">>, N_a_a, N_b_a, Q_any_a }

\* The offsets of the direct get_series calls: those get_all_series reaches.
CallOffsets == { 0, DefaultLimit }

\* The node lists of the fetch_multi calls made next to get_series calls.
CallNodes == { <<>>, <<N_a_b>> }

\* The number of direct calls, get_series and fetch_multi together.
MaxOps == 2

(***************************************************************************)
(* State.                                                                  *)
(***************************************************************************)
VARIABLES
    leaf_paths,      \* self.leaf_paths: the keys path+pattern classified Leaf
    branch_paths,    \* self.branch_paths: a dict, path -> branch
    fn_pc,           \* find_nodes: "idle", "loop" (inside the for loop), "done"
    fn_pattern,      \* find_nodes: query.pattern
    fn_series,       \* find_nodes: series, the result of get_all_series
    fn_i,            \* find_nodes: the number of paths of series the loop has taken
    seen_branches,   \* find_nodes: its local seen_branches
    yielded,         \* find_nodes: the nodes yielded so far by the current call
    calls            \* the number of find_nodes calls started on the instance

nodeVars == <<leaf_paths, branch_paths, fn_pc, fn_pattern, fn_series, fn_i,
              seen_branches, yielded, calls>>

VARIABLES
    store,           \* the measurement names InfluxDB holds
    has_memcache,    \* self.memcache is set (config has a memcache_host)
    memcache_ttl,    \* self.memcache_ttl
    interval,        \* series_loader_interval
    series_cache,    \* memcached: key of a series list -> [val, time]
    mutex_left,      \* memcached: time left to SERIES_LOADER_MUTEX_KEY, 0: absent
    l_pc,            \* per loader: "none", "off", "check", "set", "refresh", "sleep"
    l_offset,        \* per loader: offset of the next page of its refresh
    l_sleep,         \* per loader: time left of its time.sleep(interval)
    l_tick,          \* per loader: what the current turn of its loop has done
    c_pc,            \* get_all_series: "idle", "page" (a get_series call is next), "done"
    c_pattern,       \* get_all_series: query.pattern
    c_cache,         \* get_all_series: cache
    c_limit,         \* get_all_series: limit
    c_offset,        \* get_all_series: offset of the innermost frame
    c_frames,        \* get_all_series: _data of every open frame, outermost first
    c_last,          \* what the last get_series call of the caller did
    c_result,        \* what the last finished get_all_series call returned
    requests         \* the number of get_all_series calls started

cacheVars == <<store, has_memcache, memcache_ttl, interval, series_cache, mutex_left,
               l_pc, l_offset, l_sleep, l_tick, c_pc, c_pattern, c_cache, c_limit,
               c_offset, c_frames, c_last, c_result, requests>>

VARIABLES
    data_cache,      \* memcached: key of a fetch -> [val, time]
    f_nodes,         \* the paths of the nodes of the last fetch_multi call
    f_answer,        \* what the store answered in it, {} when it was not asked
    f_ret,           \* what the call returned: [time_info, data]
    f_did,           \* what the call did: [via, queries, gets, sets]
    fetches          \* the number of fetch_multi calls

fetchVars == <<data_cache, f_nodes, f_answer, f_ret, f_did, fetches>>

vars == <<nodeVars, cacheVars, fetchVars>>

\* __init__, lines 90-91, and no find_nodes call started
NodesInit ==
    /\ leaf_paths = {}
    /\ branch_paths = <<>>
    /\ fn_pc = "idle"
    /\ fn_pattern = STAR
    /\ fn_series = <<>>
    /\ fn_i = 0
    /\ seen_branches = {}
    /\ yielded = <<>>
    /\ calls = 0

\* find_nodes, lines 321-342: series = get_all_series(...), seen_branches = set()
FindNodesStart(pattern, series) ==
    /\ fn_pc \in {"idle", "done"}
    /\ calls < MaxCalls
    /\ fn_pc' = "loop"
    /\ fn_pattern' = pattern
    /\ fn_series' = series
    /\ fn_i' = 0
    /\ seen_branches' = {}
    /\ yielded' = <<>>
    /\ calls' = calls + 1
    /\ UNCHANGED <<leaf_paths, branch_paths>>
    /\ UNCHANGED <<cacheVars, fetchVars>>

\* find_nodes, lines 343-361: one turn of the loop
FindNodesTurn ==
    /\ fn_pc = "loop"
    /\ fn_i < Len(fn_series)
    /\ LET t == find_nodes_turn(leaf_paths, branch_paths, seen_branches,
                                fn_pattern, fn_series[fn_i + 1])
       IN  /\ leaf_paths' = t.leaf_paths
           /\ seen_branches' = t.seen
           /\ yielded' = yielded \o t.out
    /\ fn_i' = fn_i + 1
    /\ UNCHANGED <<branch_paths, fn_pc, fn_pattern, fn_series, calls>>
    /\ UNCHANGED <<cacheVars, fetchVars>>

\* find_nodes, line 362: the loop is over
FindNodesReturn ==
    /\ fn_pc = "loop"
    /\ fn_i = Len(fn_series)
    /\ fn_pc' = "done"
    /\ UNCHANGED <<leaf_paths, branch_paths, fn_pattern, fn_series, fn_i,
                   seen_branches, yielded, calls>>
    /\ UNCHANGED <<cacheVars, fetchVars>>

NextNodes ==
    \/ \E pattern \in NodePatterns, series \in NodeSeries : FindNodesStart(pattern, series)
    \/ FindNodesTurn
    \/ FindNodesReturn

\* A turn of the loader's loop that has done nothing yet.
FreshTick == [saw |-> FALSE, set |-> FALSE, queries |-> 0, writes |-> 0, failed |-> FALSE]

\* No get_series call made yet.
NoCall == [via |-> "none", ret |-> <<>>, parent |-> NoSeries, pattern |-> STAR,
           limit |-> 0, offset |-> 0, cache |-> TRUE, queries |-> 0, gets |-> 0,
           wrote |-> <<>>]

\* An empty memcached, no instance constructed, no call made
CacheInit ==
    /\ store \in Stores
    /\ has_memcache \in BOOLEAN
    /\ memcache_ttl \in MemcacheTTLs
    /\ interval \in Intervals
    /\ series_cache = <<>>
    /\ mutex_left = 0
    /\ l_pc = [p \in LoaderProcs |-> "none"]
    /\ l_offset = [p \in LoaderProcs |-> 0]
    /\ l_sleep = [p \in LoaderProcs |-> 0]
    /\ l_tick = [p \in LoaderProcs |-> FreshTick]
    /\ c_pc = "idle"
    /\ c_pattern = STAR
    /\ c_cache = TRUE
    /\ c_limit = DefaultLimit
    /\ c_offset = 0
    /\ c_frames = <<>>
    /\ c_last = NoCall
    /\ c_result = <<>>
    /\ requests = 0

\* The cache system where a specification leaves it out: no loader, no call
CacheIdle ==
    /\ store = {}
    /\ memcache_ttl = 0
    /\ interval = 0
    /\ series_cache = <<>>
    /\ mutex_left = 0
    /\ l_pc = [p \in LoaderProcs |-> "none"]
    /\ l_offset = [p \in LoaderProcs |-> 0]
    /\ l_sleep = [p \in LoaderProcs |-> 0]
    /\ l_tick = [p \in LoaderProcs |-> FreshTick]
    /\ c_pc = "idle"
    /\ c_pattern = STAR
    /\ c_cache = TRUE
    /\ c_limit = 0
    /\ c_offset = 0
    /\ c_frames = <<>>
    /\ c_last = NoCall
    /\ c_result = <<>>
    /\ requests = 0

\* __init__ with the test of line 95 left out: the loader process is started
\* with or without a memcache host
ConstructAlwaysLoader(p) ==
    /\ l_pc[p] = "none"
    /\ mutex_left' = 0
    /\ l_pc' = [l_pc EXCEPT ![p] = "check"]
    /\ UNCHANGED <<store, has_memcache, memcache_ttl, interval, series_cache,
                   l_offset, l_sleep, l_tick, c_pc, c_pattern, c_cache, c_limit,
                   c_offset, c_frames, c_last, c_result, requests>>
    /\ UNCHANGED <<nodeVars, fetchVars>>

\* __init__, lines 77-101: with a memcache host the flag is deleted and the
\* loader process started; without one there is no loader
Construct(p) ==
    /\ l_pc[p] = "none"
    /\ IF has_memcache
       THEN /\ mutex_left' = 0
            /\ l_pc' = [l_pc EXCEPT ![p] = "check"]
       ELSE /\ l_pc' = [l_pc EXCEPT ![p] = "off"]
            /\ UNCHANGED mutex_left
    /\ UNCHANGED <<store, has_memcache, memcache_ttl, interval, series_cache,
                   l_offset, l_sleep, l_tick, c_pc, c_pattern, c_cache, c_limit,
                   c_offset, c_frames, c_last, c_result, requests>>
    /\ UNCHANGED <<nodeVars, fetchVars>>

\* _series_loader with the sleep-and-continue of lines 250-251 left out: the
\* loader goes on to set the flag whatever its get returned
LoaderCheckFallsThrough(p) ==
    /\ l_pc[p] = "check"
    /\ l_tick' = [l_tick EXCEPT ![p].saw = (mutex_left > 0)]
    /\ l_pc' = [l_pc EXCEPT ![p] = "set"]
    /\ UNCHANGED <<store, has_memcache, memcache_ttl, interval, series_cache,
                   mutex_left, l_offset, l_sleep, c_pc, c_pattern, c_cache, c_limit,
                   c_offset, c_frames, c_last, c_result, requests>>
    /\ UNCHANGED <<nodeVars, fetchVars>>

\* _series_loader, lines 246-251: memcache.get of the flag; present: sleep and
\* continue; absent: go on to line 252
LoaderCheck(p) ==
    /\ l_pc[p] = "check"
    /\ IF mutex_left > 0
       THEN /\ l_tick' = [l_tick EXCEPT ![p].saw = TRUE]
            /\ l_pc' = [l_pc EXCEPT ![p] = "sleep"]
            /\ l_sleep' = [l_sleep EXCEPT ![p] = interval]
       ELSE /\ l_pc' = [l_pc EXCEPT ![p] = "set"]
            /\ UNCHANGED <<l_tick, l_sleep>>
    /\ UNCHANGED <<store, has_memcache, memcache_ttl, interval, series_cache,
                   mutex_left, l_offset, c_pc, c_pattern, c_cache, c_limit,
                   c_offset, c_frames, c_last, c_result, requests>>
    /\ UNCHANGED <<nodeVars, fetchVars>>

\* _series_loader with the memcache.set of line 252 left out
LoaderSetNoFlag(p) ==
    /\ l_pc[p] = "set"
    /\ l_tick' = [l_tick EXCEPT ![p].set = TRUE]
    /\ l_pc' = [l_pc EXCEPT ![p] = "refresh"]
    /\ l_offset' = [l_offset EXCEPT ![p] = 0]
    /\ UNCHANGED <<store, has_memcache, memcache_ttl, interval, series_cache,
                   mutex_left, l_sleep, c_pc, c_pattern, c_cache, c_limit, c_offset,
                   c_frames, c_last, c_result, requests>>
    /\ UNCHANGED <<nodeVars, fetchVars>>

\* _series_loader, lines 252-255: memcache.set of the flag with time=60, and
\* find_nodes(query, cache=False) is entered
LoaderSet(p) ==
    /\ l_pc[p] = "set"
    /\ mutex_left' = MUTEX_TTL
    /\ l_tick' = [l_tick EXCEPT ![p].set = TRUE]
    /\ l_pc' = [l_pc EXCEPT ![p] = "refresh"]
    /\ l_offset' = [l_offset EXCEPT ![p] = 0]
    /\ UNCHANGED <<store, has_memcache, memcache_ttl, interval, series_cache,
                   l_sleep, c_pc, c_pattern, c_cache, c_limit, c_offset, c_frames,
                   c_last, c_result, requests>>
    /\ UNCHANGED <<nodeVars, fetchVars>>

\* _series_loader with find_nodes(query) in place of find_nodes(query, cache=False)
\* at line 255: the pages are read from the cache where it has them
LoaderPageCached(p) ==
    /\ l_pc[p] = "refresh"
    /\ \E r \in {get_series(store, TRUE, series_cache, memcache_ttl, STAR, TRUE,
                              DefaultLimit, l_offset[p])} :
           /\ series_cache' = r.mc
           /\ l_tick' = [l_tick EXCEPT ![p].queries = @ + r.queries,
                                       ![p].writes = @ + Len(r.wrote)]
           /\ IF r.ret # <<>> /\ Len(r.ret) >= DefaultLimit
              THEN /\ l_offset' = [l_offset EXCEPT ![p] = @ + DefaultLimit]
                   /\ UNCHANGED <<l_pc, l_sleep>>
              ELSE /\ l_pc' = [l_pc EXCEPT ![p] = "sleep"]
                   /\ l_sleep' = [l_sleep EXCEPT ![p] = interval]
                   /\ UNCHANGED l_offset
    /\ UNCHANGED <<store, has_memcache, memcache_ttl, interval, mutex_left, c_pc,
                   c_pattern, c_cache, c_limit, c_offset, c_frames, c_last, c_result,
                   requests>>
    /\ UNCHANGED <<nodeVars, fetchVars>>

\* _series_loader, lines 255-258: one get_series call of the get_all_series that
\* find_nodes('*', cache=False) makes. After the last page find_nodes classifies
\* the list in the loader process's own copy of the instance, the nodes are
\* dropped and the loader sleeps.
LoaderPage(p) ==
    /\ l_pc[p] = "refresh"
    /\ \E r \in {get_series(store, TRUE, series_cache, memcache_ttl, STAR, FALSE,
                              DefaultLimit, l_offset[p])} :
           /\ series_cache' = r.mc
           /\ l_tick' = [l_tick EXCEPT ![p].queries = @ + r.queries,
                                       ![p].writes = @ + Len(r.wrote)]
           /\ IF r.ret # <<>> /\ Len(r.ret) >= DefaultLimit
              THEN /\ l_offset' = [l_offset EXCEPT ![p] = @ + DefaultLimit]
                   /\ UNCHANGED <<l_pc, l_sleep>>
              ELSE /\ l_pc' = [l_pc EXCEPT ![p] = "sleep"]
                   /\ l_sleep' = [l_sleep EXCEPT ![p] = interval]
                   /\ UNCHANGED l_offset
    /\ UNCHANGED <<store, has_memcache, memcache_ttl, interval, mutex_left, c_pc,
                   c_pattern, c_cache, c_limit, c_offset, c_frames, c_last, c_result,
                   requests>>
    /\ UNCHANGED <<nodeVars, fetchVars>>

\* _series_loader, line 255, when client.query (line 191) raises inside the
\* get_series call of find_nodes('*', cache=False): with cache=False and the
\* pattern '*' nothing was read or written before the query; no try encloses
\* lines 245-258, the exception leaves the while loop and the process ends
LoaderPageFails(p) ==
    /\ l_pc[p] = "refresh"
    /\ l_tick' = [l_tick EXCEPT ![p].queries = @ + 1, ![p].failed = TRUE]
    /\ l_pc' = [l_pc EXCEPT ![p] = "dead"]
    /\ UNCHANGED <<store, has_memcache, memcache_ttl, interval, series_cache,
                   mutex_left, l_offset, l_sleep, c_pc, c_pattern, c_cache, c_limit,
                   c_offset, c_frames, c_last, c_result, requests>>
    /\ UNCHANGED <<nodeVars, fetchVars>>

\* _series_loader, lines 250 and 258: time.sleep(interval) returns and the loop
\* takes its next turn
LoaderWake(p) ==
    /\ l_pc[p] = "sleep"
    /\ l_sleep[p] = 0
    /\ l_pc' = [l_pc EXCEPT ![p] = "check"]
    /\ l_tick' = [l_tick EXCEPT ![p] = FreshTick]
    /\ UNCHANGED <<store, has_memcache, memcache_ttl, interval, series_cache,
                   mutex_left, l_offset, l_sleep, c_pc, c_pattern, c_cache, c_limit,
                   c_offset, c_frames, c_last, c_result, requests>>
    /\ UNCHANGED <<nodeVars, fetchVars>>

\* d units of time pass: for the flag's lifetime (time=60, line 252) and for the
\* sleeping loaders
Elapse(d) ==
    /\ mutex_left > 0 \/ \E p \in LoaderProcs : l_pc[p] = "sleep" /\ l_sleep[p] > 0
    /\ mutex_left' = Max(0, mutex_left - d)
    /\ l_sleep' = [p \in LoaderProcs |->
                      IF l_pc[p] = "sleep" THEN Max(0, l_sleep[p] - d) ELSE l_sleep[p]]
    /\ UNCHANGED <<store, has_memcache, memcache_ttl, interval, series_cache,
                   l_pc, l_offset, l_tick, c_pc, c_pattern, c_cache, c_limit,
                   c_offset, c_frames, c_last, c_result, requests>>
    /\ UNCHANGED <<nodeVars, fetchVars>>

\* An entry of the series cache runs out of the lifetime it was set with (lines
\* 154 and 195), or memcached evicts it
ExpireSeries(key) ==
    /\ key \in DOMAIN series_cache
    /\ series_cache' = McDelete(series_cache, key)
    /\ UNCHANGED <<store, has_memcache, memcache_ttl, interval, mutex_left, l_pc,
                   l_offset, l_sleep, l_tick, c_pc, c_pattern, c_cache, c_limit,
                   c_offset, c_frames, c_last, c_result, requests>>
    /\ UNCHANGED <<nodeVars, fetchVars>>

\* get_all_series(query, cache, limit) is called on a constructed instance:
\* offset=0, _data=None
CallStart(pattern, cache, limit) ==
    /\ c_pc \in {"idle", "done"}
    /\ requests < MaxRequests
    /\ \E p \in LoaderProcs : l_pc[p] # "none"
    /\ c_pc' = "page"
    /\ c_pattern' = pattern
    /\ c_cache' = cache
    /\ c_limit' = limit
    /\ c_offset' = 0
    /\ c_frames' = << <<>> >>
    /\ c_last' = NoCall
    /\ c_result' = <<>>
    /\ requests' = requests + 1
    /\ UNCHANGED <<store, has_memcache, memcache_ttl, interval, series_cache,
                   mutex_left, l_pc, l_offset, l_sleep, l_tick>>
    /\ UNCHANGED <<nodeVars, fetchVars>>

\* get_all_series with "return data" in place of "return _data + data" at line
\* 220: the innermost frame leaves out the page before its own
CallPageDropsData ==
    /\ c_pc = "page"
    /\ \E r \in {get_series(store, has_memcache, series_cache, memcache_ttl,
                              c_pattern, c_cache, c_limit, c_offset)} :
           /\ series_cache' = r.mc
           /\ c_last' = [via |-> r.via, ret |-> r.ret, parent |-> r.parent,
                         pattern |-> c_pattern, limit |-> c_limit, offset |-> c_offset,
                         cache |-> c_cache, queries |-> r.queries, gets |-> r.gets,
                         wrote |-> r.wrote]
           /\ IF r.ret # <<>> /\ Len(r.ret) >= c_limit
              THEN /\ c_offset' = c_limit + c_offset
                   /\ c_frames' = Append(c_frames, r.ret)
                   /\ UNCHANGED <<c_pc, c_result>>
              ELSE /\ c_pc' = "done"
                   /\ c_result' = IF r.ret # <<>>
                                  THEN Flatten(SliceTo(c_frames, -1)) \o r.ret
                                  ELSE Flatten(c_frames)
                   /\ UNCHANGED <<c_offset, c_frames>>
    /\ UNCHANGED <<store, has_memcache, memcache_ttl, interval, mutex_left, l_pc,
                   l_offset, l_sleep, l_tick, c_pattern, c_cache, c_limit, requests>>
    /\ UNCHANGED <<nodeVars, fetchVars>>

\* get_all_series, lines 214-224, in its innermost frame: the get_series call,
\* then either the recursive call with _data=data or the return, which every
\* open frame passes on with its own _data put in front
CallPage ==
    /\ c_pc = "page"
    /\ \E r \in {get_series(store, has_memcache, series_cache, memcache_ttl,
                              c_pattern, c_cache, c_limit, c_offset)} :
           /\ series_cache' = r.mc
           /\ c_last' = [via |-> r.via, ret |-> r.ret, parent |-> r.parent,
                         pattern |-> c_pattern, limit |-> c_limit, offset |-> c_offset,
                         cache |-> c_cache, queries |-> r.queries, gets |-> r.gets,
                         wrote |-> r.wrote]
           /\ IF r.ret # <<>> /\ Len(r.ret) >= c_limit
              THEN /\ c_offset' = c_limit + c_offset
                   /\ c_frames' = Append(c_frames, r.ret)
                   /\ UNCHANGED <<c_pc, c_result>>
              ELSE /\ c_pc' = "done"
                   /\ c_result' = IF r.ret # <<>> THEN Flatten(c_frames) \o r.ret
                                  ELSE Flatten(c_frames)
                   /\ UNCHANGED <<c_offset, c_frames>>
    /\ UNCHANGED <<store, has_memcache, memcache_ttl, interval, mutex_left, l_pc,
                   l_offset, l_sleep, l_tick, c_pattern, c_cache, c_limit, requests>>
    /\ UNCHANGED <<nodeVars, fetchVars>>

\* get_series(query, cache, limit, offset) is called on a constructed instance
\* and returns
GetSeries(pattern, cache, limit, offset) ==
    /\ requests + fetches < MaxOps
    /\ \E p \in ServingProcs : l_pc[p] # "none"
    /\ \E r \in {get_series(store, has_memcache, series_cache, memcache_ttl,
                              pattern, cache, limit, offset)} :
           /\ series_cache' = r.mc
           /\ c_last' = [via |-> r.via, ret |-> r.ret, parent |-> r.parent,
                         pattern |-> pattern, limit |-> limit, offset |-> offset,
                         cache |-> cache, queries |-> r.queries, gets |-> r.gets,
                         wrote |-> r.wrote]
           /\ c_result' = r.ret
    /\ requests' = requests + 1
    /\ UNCHANGED <<store, has_memcache, memcache_ttl, interval, mutex_left, l_pc,
                   l_offset, l_sleep, l_tick, c_pc, c_pattern, c_cache, c_limit,
                   c_offset, c_frames>>
    /\ UNCHANGED <<nodeVars, fetchVars>>

\* get_series(query, cache, limit, offset) is called on a constructed instance,
\* reaches the store query of line 191, and the query raises: the exception
\* leaves get_series (no try in lines 162-197), nothing is returned
GetSeriesFails(pattern, cache, limit, offset) ==
    /\ requests + fetches < MaxOps
    /\ \E p \in ServingProcs : l_pc[p] # "none"
    /\ get_series(store, has_memcache, series_cache, memcache_ttl, pattern, cache,
                  limit, offset).queries = 1
    /\ \E r \in {get_series_raises(has_memcache, series_cache, memcache_ttl,
                                     pattern, cache, limit, offset)} :
           /\ series_cache' = r.mc
           /\ c_last' = [via |-> r.via, ret |-> r.ret, parent |-> r.parent,
                         pattern |-> pattern, limit |-> limit, offset |-> offset,
                         cache |-> cache, queries |-> r.queries, gets |-> r.gets,
                         wrote |-> r.wrote]
    /\ c_result' = <<>>
    /\ requests' = requests + 1
    /\ UNCHANGED <<store, has_memcache, memcache_ttl, interval, mutex_left, l_pc,
                   l_offset, l_sleep, l_tick, c_pc, c_pattern, c_cache, c_limit,
                   c_offset, c_frames>>
    /\ UNCHANGED <<nodeVars, fetchVars>>

\* No fetch_multi call made, an empty data cache
FetchInit ==
    /\ data_cache = <<>>
    /\ f_nodes = <<>>
    /\ f_answer = {}
    /\ f_ret = [time_info |-> <<0, 0, 0>>, data |-> <<>>]
    /\ f_did = [via |-> "none", queries |-> 0, gets |-> 0, sets |-> 0]
    /\ fetches = 0

\* fetch_multi(nodes, start_time, end_time), lines 364-417
FetchMulti(nodes, range, aggregation_func, answer) ==
    /\ fetches < MaxFetches
    /\ \E r \in {fetch_multi(has_memcache, data_cache, nodes, range[1], range[2],
                             aggregation_func, answer)} :
           /\ data_cache' = r.dc
           /\ f_ret' = [time_info |-> r.time_info, data |-> r.data]
           /\ f_did' = [via |-> r.via, queries |-> r.queries, gets |-> r.gets,
                        sets |-> r.sets]
           /\ f_answer' = IF r.queries > 0 THEN answer ELSE {}
    /\ f_nodes' = nodes
    /\ fetches' = fetches + 1
    /\ UNCHANGED <<nodeVars, cacheVars>>

\* fetch_multi(nodes, start_time, end_time) reaches the store query of line 404
\* and the query raises: the exception leaves fetch_multi (no try in lines
\* 364-417), nothing is returned
FetchMultiFails(nodes, range, aggregation_func) ==
    /\ fetches < MaxFetches
    /\ fetch_multi(has_memcache, data_cache, nodes, range[1], range[2],
                   aggregation_func, {}).queries = 1
    /\ \E r \in {fetch_multi_raises(has_memcache, data_cache, nodes, range[1],
                                    range[2], aggregation_func)} :
           /\ data_cache' = r.dc
           /\ f_ret' = [time_info |-> r.time_info, data |-> r.data]
           /\ f_did' = [via |-> r.via, queries |-> r.queries, gets |-> r.gets,
                        sets |-> r.sets]
    /\ f_answer' = {}
    /\ f_nodes' = nodes
    /\ fetches' = fetches + 1
    /\ UNCHANGED <<nodeVars, cacheVars>>

\* An entry of the data cache runs out of the lifetime it was set with (line
\* 414), or memcached evicts it
ExpireData(key) ==
    /\ key \in DOMAIN data_cache
    /\ data_cache' = McDelete(data_cache, key)
    /\ UNCHANGED <<f_nodes, f_answer, f_ret, f_did, fetches>>
    /\ UNCHANGED <<nodeVars, cacheVars>>

NextFetch ==
    \/ \E nodes \in FetchNodes, range \in FetchRanges :
           \E aggregation_func \in
                  IF nodes = <<>> THEN {"mean"}
                  ELSE {get_aggregation_func(path) : path \in Range(nodes)} :
               \E answer \in IF nodes = <<>> THEN {{}} ELSE Answers(Range(nodes)) :
                   FetchMulti(nodes, range, aggregation_func, answer)
    \/ \E key \in DOMAIN data_cache : ExpireData(key)

\* fetch_multi calls on the instances sharing one data cache, or on an instance
\* without memcache.
\* An instance with or without memcache, no loader and no series call modelled
InitFetch == NodesInit /\ CacheIdle /\ has_memcache \in BOOLEAN /\ FetchInit

SpecFetch == InitFetch /\ [][NextFetch]_vars

\* Nothing constructed, nothing called, empty caches
Init == NodesInit /\ CacheInit /\ FetchInit

NextLoaders ==
    \/ \E p \in LoaderProcs : Construct(p)
    \/ \E p \in LoaderProcs : LoaderCheck(p)
    \/ \E p \in LoaderProcs : LoaderSet(p)
    \/ \E p \in LoaderProcs : LoaderPage(p)
    \/ \E p \in LoaderProcs : LoaderWake(p)
    \/ \E d \in TimeSteps : Elapse(d)
    \/ \E key \in DOMAIN series_cache : ExpireSeries(key)

\* The loader processes of the instances sharing one memcached, with the flag,
\* the time and the root entries of the series cache.
SpecLoader == Init /\ [][NextLoaders]_vars

\* Nothing constructed, no call made, empty caches; a store of CallStores
InitCalls ==
    /\ NodesInit
    /\ FetchInit
    /\ store \in CallStores
    /\ has_memcache \in BOOLEAN
    /\ memcache_ttl \in MemcacheTTLs
    /\ interval \in Intervals
    /\ series_cache = <<>>
    /\ mutex_left = 0
    /\ l_pc = [p \in LoaderProcs |-> "none"]
    /\ l_offset = [p \in LoaderProcs |-> 0]
    /\ l_sleep = [p \in LoaderProcs |-> 0]
    /\ l_tick = [p \in LoaderProcs |-> FreshTick]
    /\ c_pc = "idle"
    /\ c_pattern = STAR
    /\ c_cache = TRUE
    /\ c_limit = DefaultLimit
    /\ c_offset = 0
    /\ c_frames = <<>>
    /\ c_last = NoCall
    /\ c_result = <<>>
    /\ requests = 0

NextCalls ==
    \/ \E p \in ServingProcs : Construct(p)
    \/ \E pattern \in SeriesPatterns, cache \in BOOLEAN, offset \in CallOffsets :
           GetSeries(pattern, cache, DefaultLimit, offset)
    \/ \E pattern \in SeriesPatterns, cache \in BOOLEAN, offset \in CallOffsets :
           GetSeriesFails(pattern, cache, DefaultLimit, offset)
    \/ \E nodes \in CallNodes, range \in FetchRanges :
           \E answer \in IF nodes = <<>> THEN {{}} ELSE Answers(Range(nodes)) :
               /\ requests + fetches < MaxOps
               /\ FetchMulti(nodes, range, "mean", answer)
    \/ \E nodes \in CallNodes, range \in FetchRanges :
           /\ requests + fetches < MaxOps
           /\ FetchMultiFails(nodes, range, "mean")
    \/ \E key \in DOMAIN series_cache : ExpireSeries(key)
    \/ \E key \in DOMAIN data_cache : ExpireData(key)

\* get_series and fetch_multi called directly on one instance, with or without
\* memcache, on a store whose queries may fail; the loader, when there is one,
\* has not run yet.
SpecCalls == InitCalls /\ [][NextCalls]_vars

NextLoadersFaulty ==
    \/ NextLoaders
    \/ \E p \in LoaderProcs : LoaderPageFails(p)

\* The loader processes with a store whose queries may fail.
SpecLoaderFaulty == Init /\ [][NextLoadersFaulty]_vars

Next ==
    \/ \E p \in ServingProcs : Construct(p)
    \/ \E p \in ServingProcs : LoaderCheck(p)
    \/ \E p \in ServingProcs : LoaderSet(p)
    \/ \E p \in ServingProcs : LoaderPage(p)
    \/ \E p \in ServingProcs : LoaderWake(p)
    \/ \E d \in TimeSteps : Elapse(d)
    \/ \E key \in DOMAIN series_cache : ExpireSeries(key)
    \/ \E pattern \in CallPatterns, cache \in BOOLEAN, limit \in CallLimits :
           CallStart(pattern, cache, limit)
    \/ CallPage

\* One instance serving get_all_series calls, with its loader, the time and the
\* series cache.
Spec == Init /\ [][Next]_vars

\* The classification of find_nodes on one instance.
\* An instance without memcache, no series call and no fetch modelled
InitNodes == NodesInit /\ CacheIdle /\ has_memcache = FALSE /\ FetchInit

SpecNodes == InitNodes /\ [][NextNodes]_vars

(***************************************************************************)
(* Properties of the classification (SpecNodes).                           *)
(***************************************************************************)

\* Every path of the model's series lists.
NodePaths == UNION {{series[k] : k \in 1..Len(series)} : series \in NodeSeries}

\* C7: within one find_nodes call no Branch segment is yielded twice (the Branch
\* nodes yielded so far carry pairwise distinct segments), and find_branch, asked
\* about any path while the call runs, never returns a segment that is already in
\* the call's seen set.
C7_NoBranchTwice ==
    /\ \A j, k \in 1..Len(yielded) :
           (j # k /\ yielded[j].kind = "Branch" /\ yielded[k].kind = "Branch")
               => yielded[j].name # yielded[k].name
    /\ NamesOf(yielded, "Branch") \subseteq seen_branches
    /\ \A path \in NodePaths :
           find_branch(path, fn_pattern, seen_branches).ret \notin seen_branches

\* C7's case: a call over three paths of one first segment has ended, and yielded
\* that segment as a Branch once.
C7_Witness ==
    /\ fn_pc = "done"
    /\ fn_pattern = STAR
    /\ fn_series = <<P_web1_idle, P_web1_user, P_web2_idle>>
    /\ yielded = <<BranchNode(S_servers)>>

\* C8: when a find_nodes call has ended, the set of Branch segments it yielded is
\* the set a fresh instance (empty memo) yields for the same pattern and series
\* list, whatever calls the instance served before.
C8_BranchesAsFresh ==
    fn_pc = "done" =>
        NamesOf(yielded, "Branch")
            = NamesOf(find_nodes_run({}, {}, fn_pattern, fn_series), "Branch")

\* C9: for the pattern servers.*.cpu and the three paths below cpu a call yields
\* Branch(web1) and Branch(web2), each once, and no Leaf; and no path with more
\* segments than the pattern is yielded as a Leaf.
C9_DeeperPathsAreBranches ==
    /\ (/\ fn_pc = "done"
        /\ fn_pattern = Q_servers_any_cpu
        /\ fn_series = <<P_web1_idle, P_web1_user, P_web2_idle>>)
           => yielded = <<BranchNode(S_web1), BranchNode(S_web2)>>
    /\ \A k \in 1..Len(yielded) :
           yielded[k].kind = "Leaf"
               => Len(Split(yielded[k].name, ".")) <= Len(Split(fn_pattern, "."))

\* C10: for the root pattern '*', with the memo as any earlier calls left it and
\* with any of the paths' keys for '*' added to it, a path with a dot is not a
\* Leaf and its Branch is its first segment, and a path without a dot is a Leaf;
\* a call for '*' yields accordingly.
C10_RootClassification ==
    /\ \A path \in NodePaths, memo \in SUBSET {p \o STAR : p \in NodePaths} :
           /\ is_leaf_node(leaf_paths \cup memo, STAR, path) = ~Contains(path, ".")
           /\ Contains(path, ".")
                  => find_branch(path, STAR, {}).ret = Split(path, ".")[1]
    /\ fn_pattern = STAR =>
           \A k \in 1..fn_i :
               IF Contains(fn_series[k], ".")
               THEN /\ fn_series[k] \notin NamesOf(yielded, "Leaf")
                    /\ Split(fn_series[k], ".")[1] \in NamesOf(yielded, "Branch")
               ELSE fn_series[k] \in NamesOf(yielded, "Leaf")

\* C10's case: a call for '*' over a list with a dotless and a dotted path has
\* ended on an instance whose memo an earlier call has filled.
C10_Witness ==
    /\ fn_pc = "done"
    /\ fn_pattern = STAR
    /\ calls = 2
    /\ \E k \in 1..Len(fn_series) : Contains(fn_series[k], ".")
    /\ \E k \in 1..Len(fn_series) : ~Contains(fn_series[k], ".")
    /\ \E key \in leaf_paths : ~EndsWith(key, "*")
    /\ yielded = <<LeafNode(<<"a">>), BranchNode(<<"a">>), BranchNode(<<"b">>)>>

(***************************************************************************)
(* Properties of the loaders (SpecLoader).                                 *)
(***************************************************************************)

\* The loaders inside their refresh: the flag set, the pass for '*' not finished.
Refreshing == {p \in LoaderProcs : l_pc[p] = "refresh"}

\* C1, as the claim states it: at every moment at most one loader is inside its
\* refresh, for every interleaving of loader ticks, flag expiry and constructions.
C1_AtMostOneRefresh == Cardinality(Refreshing) <= 1

\* C1, amended: a loader goes from its flag read on to setting the flag only when
\* the read found the flag absent, and enters its refresh only by setting the
\* flag to its 60 units in a turn whose read saw no flag. (Loaders whose reads both
\* precede either's set, or follow the flag's expiry or its deletion by a
\* construction, are inside their refreshes together.)
C1_RefreshOnlyAfterAbsentFlag ==
    [][\A p \in LoaderProcs :
           /\ (l_pc[p] = "check" /\ l_pc'[p] = "set") => mutex_left = 0
           /\ (l_pc[p] # "refresh" /\ l_pc'[p] = "refresh")
                  => /\ l_pc[p] = "set"
                     /\ ~l_tick[p].saw
                     /\ l_tick'[p].set
                     /\ mutex_left' = MUTEX_TTL]_vars

\* C1's case: one loader is inside its refresh under the flag it has just set
\* while the other loader is about to read the flag.
C1_Witness ==
    \E p, q \in LoaderProcs :
        /\ p # q
        /\ l_pc[p] = "refresh"
        /\ l_tick[p].set
        /\ mutex_left = MUTEX_TTL
        /\ l_pc[q] = "check"

StoreMatches(pattern) == {n \in store : re_search(make_regex_string(pattern), n)}

\* C3: when a get_all_series call has returned, the set of paths it returned is
\* the set one unbounded store query for its pattern returns, whatever the cache
\* held when the call's get_series calls were made.
C3_PaginationComplete ==
    c_pc = "done" => Range(c_result) = StoreMatches(c_pattern)

\* C4: a list get_series returns by the ancestor fallback, the ancestor's cached
\* list holding every match of the pattern, is the list the store query for the
\* pattern, limit and offset returns.
C4_FallbackEqualsDirect ==
    (/\ c_last.via = "parent"
     /\ StoreMatches(c_last.pattern) \subseteq Range(c_last.parent))
        => c_last.ret = show_measurements(
                            store, make_series_query(c_last.pattern, c_last.limit,
                                                     c_last.offset))

(***************************************************************************)
(* Properties of fetch_multi (SpecFetch).                                  *)
(***************************************************************************)

\* The datapoints the store's answer holds for a path, [] when it holds none.
Answered(path) ==
    IF \E r \in f_answer : r.name = path
    THEN (CHOOSE r \in f_answer : r.name = path).values
    ELSE <<>>

\* C5: the mapping a fetch_multi call with a non-empty list of nodes returned,
\* from the store or from the data cache, has exactly the requested paths as its
\* keys; from the store, a path maps to the datapoints of the answer and to the
\* empty sequence when the answer has none for it; and every mapping the data
\* cache holds has exactly the paths of its key as its keys.
C5_ExactlyRequestedKeys ==
    /\ f_did.via \in {"cache", "store"} => DOMAIN f_ret.data = Range(f_nodes)
    /\ f_did.via = "store" =>
           \A path \in Range(f_nodes) : f_ret.data[path] = Answered(path)
    /\ \A key \in DOMAIN data_cache : DOMAIN data_cache[key].val = key[4]

\* C5's case: a call for two paths has returned from the data cache a mapping
\* with datapoints for one of them and the empty sequence for the other.
C5_Witness ==
    /\ f_did.via = "cache"
    /\ Cardinality(Range(f_nodes)) = 2
    /\ \E path \in Range(f_nodes) : f_ret.data[path] = <<>>
    /\ \E path \in Range(f_nodes) : f_ret.data[path] # <<>>

\* C6: a fetch_multi call with an empty list of nodes returns the time info of
\* its range and an empty mapping, queries the store not at all, makes no get
\* and no set of the data cache and leaves the data cache as it was.
C6_EmptyNodesTouchNothing ==
    [][(fetches' = fetches + 1 /\ f_nodes' = <<>>)
           => /\ f_ret'.data = <<>>
              /\ <<f_ret'.time_info[1], f_ret'.time_info[2]>> \in FetchRanges
              /\ f_ret'.time_info[3]
                     = calculate_interval(f_ret'.time_info[1], f_ret'.time_info[2])
              /\ f_did' = [via |-> "empty", queries |-> 0, gets |-> 0, sets |-> 0]
              /\ data_cache' = data_cache]_vars

\* C6's case: a call with an empty list of nodes has returned on an instance
\* with memcache whose data cache holds entries of earlier calls.
C6_Witness ==
    /\ f_did.via = "empty"
    /\ f_nodes = <<>>
    /\ has_memcache
    /\ data_cache # <<>>

(***************************************************************************)
(* The loader and a failing store.                                         *)
(***************************************************************************)

\* C11: a store query failure during a loader tick never terminates the
\* loader: a loader whose tick failed is asleep until its next tick, it is
\* never a process that has ended.
C11_FailedTickSleeps ==
    \A p \in LoaderProcs : l_tick[p].failed => l_pc[p] = "sleep"
(***************************************************************************)
(* An instance without memcache.                                           *)
(***************************************************************************)

\* C12: without memcache no loader is ever started and no cache operation is
\* ever attempted (no get, no set, both caches and the flag stay empty); every
\* get_series call and every fetch_multi call with a non-empty list of nodes
\* makes one store query, and what it returns is the result of that query.
C12_NoCacheDirectQueries ==
    ~has_memcache =>
        /\ \A p \in LoaderProcs : l_pc[p] \in {"none", "off"}
        /\ series_cache = <<>> /\ data_cache = <<>> /\ mutex_left = 0
        /\ c_last.gets = 0 /\ c_last.wrote = <<>>
        /\ f_did.gets = 0 /\ f_did.sets = 0
        /\ c_last.via \in {"none", "store", "raised"}
        /\ c_last.via # "none" => c_last.queries = 1
        /\ c_last.via = "store" =>
               c_result = show_measurements(
                              store, make_series_query(c_last.pattern, c_last.limit,
                                                       c_last.offset))
        /\ f_nodes # <<>> => f_did.via \in {"store", "raised"} /\ f_did.queries = 1
        /\ f_nodes # <<>> /\ f_did.via = "store" =>
               f_ret.data = setdefault_all(read_influxdb_values(f_answer), Range(f_nodes))

\* An instance without memcache has answered a get_series call and a
\* fetch_multi call from the store
C12_Witness ==
    /\ ~has_memcache
    /\ \E p \in ServingProcs : l_pc[p] = "off"
    /\ c_last.via = "store" /\ c_last.ret # <<>>
    /\ f_nodes # <<>> /\ f_did.via = "store" /\ f_answer # {}
(***************************************************************************)
(* The expression of an exact pattern.                                     *)
(***************************************************************************)

\* C13: the expression make_regex_string produces for an exact pattern P is
\* anchored at the start, and when P has no dot it matches a name without a
\* dot only when the name is P. Stated for the pattern of a get_series call
\* that queried the store and the names of that store.
C13_ExactPatternExpression ==
    c_last.via = "store" /\ ~is_pattern(c_last.pattern) =>
        /\ Head(make_regex_string(c_last.pattern)) = "^"
        /\ ~Contains(c_last.pattern, ".") =>
               \A n \in store :
                   ~Contains(n, ".") /\ re_search(make_regex_string(c_last.pattern), n)
                       => n = c_last.pattern
(***************************************************************************)
(* A path equal to an exact pattern.                                       *)
(***************************************************************************)

\* C14: for an exact pattern P with two or more segments, a path equal to P
\* is a Leaf and yields the Leaf node alone, no Branch, with the memo as
\* earlier calls left it and with keys added to it (the key of P itself, the
\* keys of the other paths for P, every key of a path and a path), and
\* whatever segments the call has seen; a call for P yields the Leaf for P.
C14_ExactPathIsLeaf ==
    /\ \A P \in NodePaths :
           Len(Split(P, ".")) >= 2 =>
               \A memo \in {{}, {P \o P}, {p \o P : p \in NodePaths \ {P}},
                             {p \o q : p, q \in NodePaths}} :
                   /\ is_leaf_node(leaf_paths \cup memo, P, P)
                   /\ \A seen \in {{}, seen_branches, {Split(P, ".")[1]},
                                    {Split(P, ".")[Len(Split(P, "."))]}} :
                          find_nodes_turn(leaf_paths \cup memo, branch_paths, seen,
                                          P, P).out = <<LeafNode(P)>>
    /\ ~is_pattern(fn_pattern) /\ Len(Split(fn_pattern, ".")) >= 2 =>
           \A k \in 1..fn_i :
               fn_series[k] = fn_pattern
                   => /\ LeafNode(fn_pattern) \in Range(yielded)
                      /\ \A b \in NamesOf(yielded, "Branch") :
                             \E j \in 1..fn_i : fn_series[j] # fn_pattern

\* A second call on the instance, for an exact pattern of four segments, has
\* ended with the Leaf of the path equal to the pattern.
C14_Witness ==
    /\ fn_pc = "done"
    /\ calls = 2
    /\ leaf_paths # {}
    /\ ~is_pattern(fn_pattern) /\ Len(Split(fn_pattern, ".")) >= 2
    /\ LeafNode(fn_pattern) \in Range(yielded)
(***************************************************************************)
(* The loader's refresh.                                                   *)
(***************************************************************************)

\* The key of the root page at an offset, and the store's page for it.
RootKey(offset) == series_key(STAR, DefaultLimit, offset)

RootPage(offset) == show_measurements(store, make_series_query(STAR, DefaultLimit, offset))

\* A loader that has set the flag and finished its refresh has fetched the
\* pages at 0, N, ..., its last offset, each by one query followed by one write.
TickComplete(p) ==
    l_tick[p].set /\ l_pc[p] = "sleep" =>
        /\ l_tick[p].queries = (l_offset[p] \div DefaultLimit) + 1
        /\ l_tick[p].writes = l_tick[p].queries

\* C15: every step of a refresh (the turn has set the flag) makes a store
\* query for '*' at its offset, whether or not an unexpired root entry is
\* cached under that key, and leaves the store's page under the root key of the
\* offset with the series lifetime; a finished refresh has made one query and
\* one write per fetched page.
C15_RefreshRepopulates ==
    [][ \A p \in LoaderProcs :
            /\ TickComplete(p)'
            /\ l_pc[p] = "refresh" /\ <<l_pc[p], l_offset[p]>>' # <<l_pc[p], l_offset[p]>>
                   => /\ l_tick[p].set
                      /\ l_tick'[p].queries = l_tick[p].queries + 1
                      /\ l_tick'[p].writes = l_tick[p].writes + 1
                      /\ RootKey(l_offset[p]) \in DOMAIN series_cache'
                      /\ series_cache'[RootKey(l_offset[p])] =
                             [val |-> RootPage(l_offset[p]), time |-> memcache_ttl]
      ]_vars

\* A loader has finished a refresh of two pages, both in the cache, after the
\* other loader had finished its own: its queries were made with the root
\* entries cached.
C15_Witness ==
    \E p, q \in LoaderProcs :
        /\ p # q
        /\ l_tick[q].set /\ l_pc[q] = "sleep" /\ l_tick[q].queries = 2
        /\ l_tick[p].set /\ l_pc[p] = "sleep" /\ l_tick[p].queries = 2
        /\ mutex_left = MUTEX_TTL
        /\ {RootKey(0), RootKey(DefaultLimit)} \subseteq DOMAIN series_cache
        /\ series_cache[RootKey(0)].val # <<>>
(***************************************************************************)
(* get_series and the cache (SpecCalls).                                   *)
(***************************************************************************)

\* C16: a get_series call whose ancestor fallback hits (an ancestor's list is
\* found in the cache), for a pattern that is wildcarded or has a dot, writes
\* the narrowed list under the key of (pattern, limit, offset) with the series
\* lifetime and returns that list without a store query, an empty narrowed
\* list included.
C16_FallbackHitAnswers ==
    [][ (/\ requests' = requests + 1
         /\ c_last'.parent # NoSeries
         /\ is_pattern(c_last'.pattern) \/ Contains(c_last'.pattern, "."))
            => /\ c_last'.via = "parent"
               /\ c_last'.queries = 0
               /\ c_last'.ret = match_entries(c_last'.parent, c_last'.pattern)
               /\ series_cache' =
                      McSet(series_cache,
                            series_key(c_last'.pattern, c_last'.limit, c_last'.offset),
                            match_entries(c_last'.parent, c_last'.pattern), memcache_ttl)
      ]_vars
(***************************************************************************)
(* Writers of one key (Spec).                                              *)
(***************************************************************************)

\* C17: the store's content being fixed, every write to a key of the series
\* cache stores the same set of paths, whether a store query, the ancestor
\* fallback or the loader's refresh makes it: no step replaces the entry of a
\* key by a list with another set of paths.
C17_WritesEquivalent ==
    [][ \A key \in DOMAIN series_cache \cap DOMAIN series_cache' :
            Range(series_cache'[key].val) = Range(series_cache[key].val) ]_vars
(***************************************************************************)
(* The pages of one get_all_series call (Spec).                            *)
(***************************************************************************)

\* C18: within one get_all_series call with limit N, the get_series calls are
\* made at the offsets 0, N, 2N, ... in this order (each at N times the
\* number of pages fetched before it), every page before the last holds N
\* paths or more, the call ends at the first page with fewer than N, and what
\* it returns is the pages in the order they were fetched, each once.
C18_PagesInOrder ==
    [][ /\ c_pc' = "page" => c_offset' = c_limit' * (Len(c_frames') - 1)
        /\ \A i \in 2..Len(c_frames') : Len(c_frames'[i]) >= c_limit'
        /\ (c_pc = "page" /\ (c_pc' = "done" \/ c_offset' # c_offset))
               => /\ c_last'.pattern = c_pattern
                  /\ c_last'.limit = c_limit
                  /\ c_last'.offset = c_offset
                  /\ IF Len(c_last'.ret) >= c_limit
                     THEN /\ c_pc' = "page"
                          /\ c_offset' = c_offset + c_limit
                          /\ c_frames' = Append(c_frames, c_last'.ret)
                     ELSE /\ c_pc' = "done"
                          /\ c_frames' = c_frames
                          /\ c_result' = Flatten(c_frames) \o c_last'.ret
      ]_vars

\* A call has returned three paths fetched as a full page at offset 0 and a
\* short page at offset N.
C18_Witness ==
    /\ c_pc = "done"
    /\ Len(c_frames) = 2
    /\ Len(c_frames[2]) = DefaultLimit
    /\ c_last.offset = DefaultLimit
    /\ c_last.ret # <<>>
    /\ c_result = c_frames[2] \o c_last.ret
\* C19: a get_series call with cache reads on that finds an entry under the key
\* of its (pattern, limit, offset) returns that entry's list, whatever the list
\* is (the empty list too), and makes no store query, no ancestor lookup (its
\* one get is that of its own key) and no cache write.
C19_ExactHitOnly ==
    [][ (/\ requests' = requests + 1
         /\ c_last'.cache
         /\ series_key(c_last'.pattern, c_last'.limit, c_last'.offset)
                \in DOMAIN series_cache)
            => /\ c_last'.via = "exact"
               /\ c_last'.ret =
                      series_cache[series_key(c_last'.pattern, c_last'.limit,
                                              c_last'.offset)].val
               /\ c_result' = c_last'.ret
               /\ c_last'.queries = 0
               /\ c_last'.gets = 1
               /\ c_last'.wrote = <<>>
               /\ series_cache' = series_cache
      ]_vars
\* C20: a get_series or fetch_multi call whose store query fails returns
\* nothing (the failure goes to its caller), has made that one query and no
\* other, and leaves both caches as they were before the call: no entry
\* created, none changed.
C20_FailureLeavesCaches ==
    [][ /\ (requests' = requests + 1 /\ c_last'.via = "raised")
               => /\ c_last'.ret = NoSeries
                  /\ c_last'.queries = 1
                  /\ c_last'.wrote = <<>>
                  /\ series_cache' = series_cache
                  /\ data_cache' = data_cache
        /\ (fetches' = fetches + 1 /\ f_did'.via = "raised")
               => /\ f_ret'.data = <<>>
                  /\ f_did'.queries = 1
                  /\ f_did'.sets = 0
                  /\ series_cache' = series_cache
                  /\ data_cache' = data_cache
      ]_vars
(***************************************************************************)
(* The leaf memo (SpecNodes).                                              *)
(***************************************************************************)

\* C21: the leaf memo never changes a classification: for every pattern and
\* path, is_leaf_node with the memo as the find_nodes calls made so far have
\* left it returns what it returns with an empty memo.
C21_MemoChangesNothing ==
    \A pattern \in NodePatterns, path \in NodePaths :
        is_leaf_node(leaf_paths, pattern, path) = is_leaf_node({}, pattern, path)
====
